---- MODULE Spec2Model ----
(***************************************************************************)
(* MotionBuilder in-betweener: the keyframe locator, the keying-group      *)
(* resolution, the pose snapshot / blend engine of pose_inbetween.py and   *)
(* the overlay session of actionscript.py, as a state machine.             *)
(*                                                                         *)
(* Times are whole frames (FBTime(0,0,0,1) is one frame).  A transform     *)
(* channel holds one integer; a rotation is one angle counted in steps of  *)
(* a full turn / AngleMod.  A slider value is a numerator over RatioDen.   *)
(* Lengths and scales are counted in 1 / BlendDen of a unit, so that the   *)
(* blend of two whole-unit values at a ratio k / BlendDen is exact.        *)
(* actionscript.py names the scoped time context SetTimeCtx; it is the     *)
(* class set_time_ctx of pose_inbetween.py.                                *)
(***************************************************************************)
EXTENDS Integers, Sequences, FiniteSets, TLC

\* ------------------------------------------------------------------ bounds
NumModels == 2
NumGroups == 3
MaxFrame == 6
MaxSceneKeys == 3
SessionMaxKeys == 2
MaxRatio == 3
MaxSessions == 1

\* --------------------------------------------------------------- constants
OneFrame == 1
RatioDen == 2
AngleMod == 8

Models == 1..NumModels
Groups == 1..NumGroups
Frames == 0..MaxFrame
Channels == {"T", "R", "S"}
NoModel == 0   \* the owner of a property that no FBModel owns
NoTime == 0 - 1
NoPose == [m \in {NoModel} |-> "None"]
KeyingModes == {"Selection", "BodyPart", "FullBody", "FullBodyNoPull"}
Masks == [Channels -> BOOLEAN]
Ratios == (0 - MaxRatio)..MaxRatio

VARIABLES
    keyset,        \* the keys of every FCurve: <<model, channel, frame>>
    LocalTime,     \* FBSystem().LocalTime
    live,          \* the local translation / rotation / scaling of every model
    quatInterp,    \* model.QuaternionInterpolate
    selected,      \* FBGetSelectedModels
    depSelected,   \* the keying groups whose IsObjectDependencySelected() holds
    subGroups,     \* <<sub, parent>>: sub is a sub keying group of parent
    propOwner,     \* the owner of the property of each keying group
    keyingMode,    \* FBGetCharactersKeyingMode()
    undoOpen,      \* undo transactions begun and not ended
    undoEnds,      \* calls of TransactionEnd
    sessions,      \* overlays constructed so far
    overlay,       \* "none" | "active" | "closed"
    models,        \* InbetweenerOverlay.models
    fullbody,      \* InbetweenerOverlay.fullbody
    current_pose,
    prev_pose,
    next_pose,
    prev_pose_time,
    next_pose_time,
    value,         \* InbetweenerOverlay.value, a numerator over RatioDen
    mask,          \* the enabled state of the T / R / S labels
    last,          \* what the last handler did (history)
    found,         \* the last result of find_nearest_keyframes (history)
    resolved,      \* the last result of get_active_keying_group_models (history)
    call,          \* one direct call of apply_inbetween_pose: arguments and outcome
    ctx,           \* a set_time_ctx object and the position in its with block
    is_editing,    \* Slider.__is_editing
    handle_pressed,          \* Slider.__handle_pressed
    slider_blend_from_current_pose,   \* Slider.__blend_from_current_pose
    overshoot_allowed,       \* Slider.__overshoot_allowed
    button_down    \* a mouse button is held down over the slider

hostVars == <<keyset, LocalTime, live, quatInterp, selected, depSelected,
              subGroups, propOwner, keyingMode, undoOpen, undoEnds>>
overlayVars == <<sessions, overlay, models, fullbody, current_pose, prev_pose, next_pose,
                 prev_pose_time, next_pose_time, value, mask>>
sliderVars == <<is_editing, handle_pressed, slider_blend_from_current_pose,
                overshoot_allowed, button_down>>
auxVars == <<call, ctx, sliderVars>>
vars == <<hostVars, overlayVars, last, found, resolved, auxVars>>

\* ------------------------------------------------------------ host scene
RangeStart == 1
RangeStop == MaxFrame

MaxOf(S) == CHOOSE x \in S : \A y \in S : y <= x
MinOf(S) == CHOOSE x \in S : \A y \in S : x <= y

RECURSIVE SortedSeq(_)
SortedSeq(S) ==
    IF S = {} THEN <<>>
    ELSE LET lo == CHOOSE x \in S : \A y \in S : x <= y
         IN  <<lo>> \o SortedSeq(S \ {lo})

\* node.FCurve.Keys of the one animation node of a property: key times, in order
Keys(m, c) == SortedSeq({f \in Frames : <<m, c, f>> \in keyset})

\* prop.GetAnimationNode().Nodes of an animated property; none when not animated
Nodes(m, c) == IF Keys(m, c) = <<>> THEN <<>> ELSE <<Keys(m, c)>>

\* -------------------------------------------------- find_nearest_keyframes
\* the while loop with the visited key always taken as the new bound
RECURSIVE BinarySearch_Untightened(_, _, _, _, _, _)
BinarySearch_Untightened(keys, t, left, right, tp, tn) ==
    IF left > right THEN [prev |-> tp, next |-> tn]
    ELSE LET mid == (left + right) \div 2
             key == keys[mid + 1]
         IN  IF key = t
             THEN [prev |-> IF mid - 1 >= 0 THEN keys[mid] ELSE tp,
                   next |-> IF mid + 1 < Len(keys) THEN keys[mid + 2] ELSE tn]
             ELSE IF key < t
                  THEN BinarySearch_Untightened(keys, t, mid + 1, right, key, tn)
                  ELSE BinarySearch_Untightened(keys, t, left, mid - 1, tp, key)

\* the while loop with a key on the current time taken as the previous key
RECURSIVE BinarySearch_KeyAtTime(_, _, _, _, _, _)
BinarySearch_KeyAtTime(keys, t, left, right, tp, tn) ==
    IF left > right THEN [prev |-> tp, next |-> tn]
    ELSE LET mid == (left + right) \div 2
             key == keys[mid + 1]
         IN  IF key = t
             THEN [prev |-> IF key > tp THEN key ELSE tp,
                   next |-> IF mid + 1 < Len(keys) /\ keys[mid + 2] < tn
                            THEN keys[mid + 2] ELSE tn]
             ELSE IF key < t
                  THEN BinarySearch_KeyAtTime(keys, t, mid + 1, right,
                                              IF key > tp THEN key ELSE tp, tn)
                  ELSE BinarySearch_KeyAtTime(keys, t, left, mid - 1,
                                              tp, IF key < tn THEN key ELSE tn)

\* the while loop of _update_closest_keyframe over one FCurve
RECURSIVE BinarySearch(_, _, _, _, _, _)
BinarySearch(keys, t, left, right, tp, tn) ==
    IF left > right THEN [prev |-> tp, next |-> tn]
    ELSE LET mid == (left + right) \div 2
             key == keys[mid + 1]
         IN  IF key = t
             THEN LET p == IF mid - 1 >= 0 /\ keys[mid] > tp THEN keys[mid] ELSE tp
                      n == IF mid + 1 < Len(keys) /\ keys[mid + 2] < tn
                           THEN keys[mid + 2] ELSE tn
                  IN  [prev |-> p, next |-> n]
             ELSE IF key < t
                  THEN BinarySearch(keys, t, mid + 1, right,
                                    IF key > tp THEN key ELSE tp, tn)
                  ELSE BinarySearch(keys, t, left, mid - 1,
                                    tp, IF key < tn THEN key ELSE tn)

RECURSIVE UpdateNodes(_, _, _, _)
UpdateNodes(nodes, t, tp, tn) ==
    IF nodes = <<>> THEN [prev |-> tp, next |-> tn]
    ELSE LET r == BinarySearch(Head(nodes), t, 0, Len(Head(nodes)) - 1, tp, tn)
         IN  UpdateNodes(Tail(nodes), t, r.prev, r.next)

\* _update_closest_keyframe(prop), when the channel of prop is searched
UpdateClosestKeyframe(m, c, use, t, b) ==
    IF use THEN UpdateNodes(Nodes(m, c), t, b.prev, b.next) ELSE b

EarlyOut(b, early_out_prev, early_out_next) ==
    b.prev >= early_out_prev /\ b.next <= early_out_next

\* the loop over the models, in the order the iterable yields them
RECURSIVE ScanModels(_, _, _, _, _, _)
ScanModels(order, msk, t, b, early_out_prev, early_out_next) ==
    IF order = <<>> THEN b
    ELSE LET m == Head(order)
             b1 == UpdateClosestKeyframe(m, "T", msk["T"], t, b)
             b2 == UpdateClosestKeyframe(m, "R", msk["R"], t, b1)
             b3 == UpdateClosestKeyframe(m, "S", msk["S"], t, b2)
         IN  IF EarlyOut(b3, early_out_prev, early_out_next) THEN b3
             ELSE ScanModels(Tail(order), msk, t, b3, early_out_prev, early_out_next)

find_nearest_keyframes(order, msk, t) ==
    LET time_previous == RangeStart
        time_next == RangeStop
        early_out_prev == time_previous + OneFrame
        early_out_next == time_next - OneFrame
    IN  ScanModels(order, msk, t, [prev |-> time_previous, next |-> time_next],
                   early_out_prev, early_out_next)

\* the iteration orders of a set of models
Orders(S) == {o \in UNION {[1..n -> S] : n \in {Cardinality(S)}} :
                 \A i, j \in DOMAIN o : i # j => o[i] # o[j]}
AllOrders == UNION {Orders(S) : S \in SUBSET Models}

\* ------------------------------------------------------- pose engine
\* the value of the key of a curve at a frame
KeyValue(m, c, f) == 2 * RatioDen * (f + m)

\* the curve of an animated channel at time t: the last key at or before t,
\* the first key before any key
CurveValue(m, c, t) ==
    LET at == {f \in Frames : <<m, c, f>> \in keyset /\ f <= t}
        all == {f \in Frames : <<m, c, f>> \in keyset}
    IN  KeyValue(m, c, IF at = {} THEN MinOf(all) ELSE MaxOf(at))

\* FBSystem().Scene.Evaluate() at time t: animated channels take their curve
Evaluate(lv, t) ==
    [m \in Models |-> [c \in Channels |->
        IF Keys(m, c) = <<>> THEN lv[m][c] ELSE CurveValue(m, c, t)]]

\* the Euler angle FBMatrixToTRS reads back from a matrix: within one turn
HalfTurn == (AngleMod - 1) \div 2
MatrixToRotation(a) == ((a + HalfTurn) % AngleMod) - HalfTurn
\* FBRotationToQuaternion: the rotation, whatever the winding of the angle
RotationToQuaternion(r) == r % AngleMod
\* FBQuaternionToRotation
QuaternionToRotation(q) == MatrixToRotation(q)

ModelTransform(lv, m) ==
    LET rotation == MatrixToRotation(lv[m]["R"])
    IN  [translation |-> lv[m]["T"],
         rotation |-> rotation,
         quaternion |-> RotationToQuaternion(rotation),
         scaling |-> lv[m]["S"]]

\* get_pose(models) on the scene lv
get_pose(S, lv) == [m \in S |-> ModelTransform(lv, m)]

\* set_time_ctx(time, eval=True) around get_pose(models): Goto, Evaluate,
\* sample; the scene the block leaves behind and the pose it read
SampleAt(S, lv, t) ==
    LET evaluated == Evaluate(lv, t)
    IN  [live |-> evaluated, pose |-> get_pose(S, evaluated)]

\* the ratios handed to the blend are numerators over BlendDen
BlendDen == 2 * RatioDen

\* a * t for a ratio t = k / BlendDen
Times(a, k) == (a * k) \div BlendDen

\* the two poses taken in the other order
lerp_Swapped(a, b, k) == b + Times(a - b, k)

\* the step taken toward b itself, not toward the difference
lerp_Unscaled(a, b, k) == a + Times(b, k)

lerp(a, b, k) == a + Times(b - a, k)

\* FBInterpolateRotation on two Euler vectors
InterpolateEuler(a, b, k) == a + Times(b - a, k)
\* FBInterpolateRotation on two quaternions: along the shorter arc
InterpolateQuaternion(qa, qb, k) ==
    (qa + Times(MatrixToRotation(qb - qa), k)) % AngleMod

\* the loop body with the scaling written whatever use_scaling says
BlendedModel_ScalingAlways(lv, m, pose_a, pose_b, k, msk) ==
    LET a == pose_a[m]
        b == pose_b[m]
    IN  [c \in Channels |->
            IF c = "S" THEN lerp(a.scaling, b.scaling, k)
            ELSE IF ~msk[c] THEN lv[m][c]
            ELSE IF c = "T" THEN lerp(a.translation, b.translation, k)
            ELSE IF quatInterp[m]
                 THEN QuaternionToRotation(InterpolateQuaternion(a.quaternion, b.quaternion, k))
                 ELSE InterpolateEuler(a.rotation, b.rotation, k)]

\* the loop body with the Euler vectors interpolated whatever the model's
\* QuaternionInterpolate says
BlendedModel_EulerAlways(lv, m, pose_a, pose_b, k, msk) ==
    LET a == pose_a[m]
        b == pose_b[m]
    IN  [c \in Channels |->
            IF ~msk[c] THEN lv[m][c]
            ELSE IF c = "T" THEN lerp(a.translation, b.translation, k)
            ELSE IF c = "S" THEN lerp(a.scaling, b.scaling, k)
            ELSE InterpolateEuler(a.rotation, b.rotation, k)]

\* what the loop body of apply_inbetween_pose writes to one model
BlendedModel(lv, m, pose_a, pose_b, k, msk) ==
    LET a == pose_a[m]
        b == pose_b[m]
    IN  [c \in Channels |->
            IF ~msk[c] THEN lv[m][c]
            ELSE IF c = "T" THEN lerp(a.translation, b.translation, k)
            ELSE IF c = "S" THEN lerp(a.scaling, b.scaling, k)
            ELSE IF quatInterp[m]
                 THEN QuaternionToRotation(InterpolateQuaternion(a.quaternion, b.quaternion, k))
                 ELSE InterpolateEuler(a.rotation, b.rotation, k)]

\* the models a loop over S writes before pose[model] raises KeyError: all of
\* S when every model has an entry, else any models met before a missing one
WrittenSets(S, present) ==
    IF S \subseteq present THEN {S} ELSE SUBSET (S \cap present)

\* apply_inbetween_pose(models, pose_a, pose_b, ratio, ...), W the models written
apply_inbetween_pose(lv, W, pose_a, pose_b, k, msk) ==
    [m \in Models |-> IF m \in W THEN BlendedModel(lv, m, pose_a, pose_b, k, msk)
                      ELSE lv[m]]

\* apply_pose(models, pose), W the models written
apply_pose(lv, W, pose) ==
    [m \in Models |->
        IF m \in W
        THEN [c \in Channels |-> IF c = "T" THEN pose[m].translation
                                 ELSE IF c = "R" THEN pose[m].rotation
                                 ELSE pose[m].scaling]
        ELSE lv[m]]

\* ------------------------------------------------------------ scene inputs
KeySlots == Models \X Channels \X Frames

\* the sets of at most n keys taken from the slots
RECURSIVE KeySetsUpTo(_, _)
KeySetsUpTo(n, slots) ==
    IF n = 0 THEN {{}}
    ELSE LET smaller == KeySetsUpTo(n - 1, slots)
         IN  smaller \cup {S \cup {k} : S \in smaller, k \in slots}

SceneKeySets == KeySetsUpTo(MaxSceneKeys, KeySlots)
\* the scenes of a session: keys strictly inside the playback range
SessionKeySets ==
    KeySetsUpTo(SessionMaxKeys,
                {k \in KeySlots : RangeStart < k[3] /\ k[3] < RangeStop})

NoFound == [order |-> <<>>, mask |-> [c \in Channels |-> FALSE],
            prev |-> NoTime, next |-> NoTime]
NoResolved == [active |-> {}, full |-> {}, done |-> FALSE]
NoLast == [op |-> "none", pose_a |-> "none", pose_b |-> "none", ratio |-> 0,
           targets |-> {}, written |-> {}, raised |-> FALSE, pose |-> NoPose]

NoCall == [op |-> "none"]
NoCtx == [pc |-> "none", time |-> NoTime, eval |-> FALSE, _cached_time |-> NoTime,
          origin |-> NoTime, raised |-> FALSE, count |-> 0]

\* the pose a user has set on the models at the current time, not keyed
PosedValue(m, c) == 2 * RatioDen * (MaxFrame + m + (IF c = "T" THEN 1 ELSE IF c = "R" THEN 2 ELSE 3))

IdleHost ==
    /\ live = [m \in Models |-> [c \in Channels |-> PosedValue(m, c)]]
    /\ quatInterp = [m \in Models |-> m = 1]
    /\ undoOpen = 0
    /\ undoEnds = 0

IdleGroups ==
    /\ selected = {}
    /\ depSelected = {}
    /\ subGroups = {}
    /\ propOwner = [g \in Groups |-> NoModel]
    /\ keyingMode = "Selection"
    /\ resolved = NoResolved

IdleOverlay ==
    /\ sessions = 0
    /\ overlay = "none"
    /\ models = {}
    /\ fullbody = {}
    /\ current_pose = NoPose
    /\ prev_pose = NoPose
    /\ next_pose = NoPose
    /\ prev_pose_time = NoTime
    /\ next_pose_time = NoTime
    /\ value = 0
    /\ mask = [c \in Channels |-> c # "S"]
    /\ last = NoLast

\* Slider.__init__ with nothing stored in the QSettings
IdleSlider ==
    /\ is_editing = FALSE
    /\ handle_pressed = FALSE
    /\ slider_blend_from_current_pose = TRUE
    /\ overshoot_allowed = TRUE
    /\ button_down = FALSE

IdleAux ==
    /\ call = NoCall
    /\ ctx = NoCtx
    /\ IdleSlider

\* ------------------------------------- specification of the keyframe locator
InitKeyframes ==
    /\ keyset \in SceneKeySets
    /\ LocalTime \in RangeStart..RangeStop
    /\ found = NoFound
    /\ IdleHost /\ IdleGroups /\ IdleOverlay /\ IdleAux

\* one call find_nearest_keyframes(models, use_translation, use_rotation, use_scale)
FindNearestKeyframes ==
    /\ found = NoFound
    /\ \E order \in AllOrders, msk \in Masks :
          \E b \in {find_nearest_keyframes(order, msk, LocalTime)} :
              found' = [order |-> order, mask |-> msk, prev |-> b.prev, next |-> b.next]
    /\ UNCHANGED <<hostVars, overlayVars, last, resolved, auxVars>>

NextKeyframes == FindNearestKeyframes

SpecKeyframes == InitKeyframes /\ [][NextKeyframes]_vars

\* ------------------------------------------------ properties of the locator
\* the key times of the searched curves of a set of models
UnionKeys(S, msk) == {f \in Frames : \E m \in S, c \in Channels :
                                         msk[c] /\ <<m, c, f>> \in keyset}
Range(o) == {o[i] : i \in DOMAIN o}
SearchedKeys == UnionKeys(Range(found.order), found.mask)

\* C1: find_nearest_keyframes returns the greatest key time <= the current time
\* and the least key time > the current time over the searched curves of all
\* the objects, the playback-range edge standing in where there is none.
\* Stated for the searches where every searched key lies inside the playback
\* range and none lies on the current time, so that "<= t" and "strictly
\* before t" name the same key.
C1_BracketOfUnion ==
    (/\ found # NoFound
     /\ \A f \in SearchedKeys : RangeStart <= f /\ f <= RangeStop /\ f # LocalTime)
    => LET before == {f \in SearchedKeys : f <= LocalTime}
           after == {f \in SearchedKeys : f > LocalTime}
       IN  /\ found.prev = (IF before = {} THEN RangeStart ELSE MaxOf(before))
           /\ found.next = (IF after = {} THEN RangeStop ELSE MinOf(after))

\* C8: searching more objects or more channels never widens the bracket,
\* whatever the order the objects are iterated in.
C8_Monotone ==
    found # NoFound =>
        \A o \in AllOrders, msk \in Masks :
            (/\ Range(o) \subseteq Range(found.order)
             /\ \A c \in Channels : msk[c] => found.mask[c])
            => LET b == find_nearest_keyframes(o, msk, LocalTime)
               IN  found.prev >= b.prev /\ found.next <= b.next

\* C9: the result is the whole playback range when nothing is searched or no
\* searched curve has a key, a side no key tightens stays at the range edge,
\* and the result never leaves the playback range.
C9_RangeDefaults ==
    found # NoFound =>
        /\ RangeStart <= found.prev
        /\ found.next <= RangeStop
        /\ (SearchedKeys = {} => found.prev = RangeStart /\ found.next = RangeStop)
        /\ ({f \in SearchedKeys : RangeStart < f /\ f < LocalTime} = {}
               => found.prev = RangeStart)
        /\ ({f \in SearchedKeys : LocalTime < f /\ f < RangeStop} = {}
               => found.next = RangeStop)

\* a search over curves whose only keys lie outside the playback range or on
\* the current time
C9_Witness ==
    /\ found # NoFound
    /\ found.order # <<>>
    /\ \E f \in SearchedKeys : f < RangeStart
    /\ \E f \in SearchedKeys : f = LocalTime
    /\ found.prev = RangeStart
    /\ found.next = RangeStop

\* ------------------------------------------ get_active_keying_group_models
\* keying_group.GetParentKeyingGroup(i), i < GetParentKeyingGroupCount()
ParentKeyingGroups(g) == {p \in Groups : <<g, p>> \in subGroups}
\* keying_group.GetSubKeyingGroup(i), i < GetSubKeyingGroupCount()
SubKeyingGroups(g) == {c \in Groups : <<c, g>> \in subGroups}

\* _get_models_from_group: the sub groups first, then the owner of the property
RECURSIVE ModelsFromGroup(_)
ModelsFromGroup(g) ==
    UNION {ModelsFromGroup(c) : c \in SubKeyingGroups(g)}
        \cup (IF propOwner[g] \in Models THEN {propOwner[g]} ELSE {})

\* the parents' parents only, whatever the keying mode
FullBodyGroups_Parents ==
    UNION {ParentKeyingGroups(g) : g \in depSelected}

\* full_body_groups after the loop over Scene.KeyingGroups
FullBodyGroups ==
    UNION {ParentKeyingGroups(p) :
              p \in UNION {ParentKeyingGroups(g) : g \in depSelected}}

\* selected_groups after the loop over Scene.KeyingGroups
SelectedGroups(mode) ==
    IF mode = "BodyPart" THEN UNION {ParentKeyingGroups(g) : g \in depSelected}
    ELSE IF mode = "FullBody" THEN FullBodyGroups
    ELSE {}

get_active_keying_group_models(mode) ==
    LET selected_models ==
            selected \cup UNION {ModelsFromGroup(g) : g \in SelectedGroups(mode)}
        full_body ==
            IF mode \in {"FullBody", "FullBodyNoPull"} THEN selected_models
            ELSE selected \cup UNION {ModelsFromGroup(g) : g \in FullBodyGroups}
    IN  [active |-> selected_models, full |-> full_body]

\* ---------------------------------- specification of the keying-group query
GroupEdges == {e \in Groups \X Groups : e[1] < e[2]}

InitGroups ==
    /\ subGroups \in SUBSET GroupEdges
    /\ propOwner \in [Groups -> Models \cup {NoModel}]
    /\ selected \in SUBSET Models
    /\ depSelected \in SUBSET Groups
    /\ keyingMode \in KeyingModes
    /\ resolved = NoResolved
    /\ keyset = {}
    /\ LocalTime = RangeStart
    /\ found = NoFound
    /\ IdleHost /\ IdleOverlay /\ IdleAux

\* one call get_active_keying_group_models()
ResolveActiveModels ==
    /\ ~resolved.done
    /\ LET r == get_active_keying_group_models(keyingMode)
       IN  resolved' = [active |-> r.active, full |-> r.full, done |-> TRUE]
    /\ UNCHANGED <<hostVars, overlayVars, last, found, auxVars>>

NextGroups == ResolveActiveModels

SpecGroups == InitGroups /\ [][NextGroups]_vars

\* ----------------------------------------- properties of the keying groups
\* the groups below g, g included, by reachability over the sub-group relation
RECURSIVE ReachDown(_, _)
ReachDown(S, n) ==
    IF n = 0 THEN S
    ELSE ReachDown(S \cup {c \in Groups : \E g \in S : <<c, g>> \in subGroups}, n - 1)
OwnedBy(g) == {propOwner[h] : h \in ReachDown({g}, NumGroups)} \cap Models

ParentsOfSelected ==
    {p \in Groups : \E g \in depSelected : <<g, p>> \in subGroups}
TopOfSelected ==
    {t \in Groups : \E p \in ParentsOfSelected : <<p, t>> \in subGroups}

\* C3: the full-body set contains the active set, which contains the selection.
C3_Nested ==
    resolved.done =>
        /\ selected \subseteq resolved.active
        /\ resolved.active \subseteq resolved.full

\* C4: in Selection mode both returned sets are the selected models, unexpanded.
C4_SelectionUnexpanded ==
    (resolved.done /\ keyingMode = "Selection") =>
        /\ resolved.active = selected
        /\ resolved.full = selected

\* C4 as amended: in Selection mode the active set is the selected models,
\* unexpanded, and the full-body set is the selected models plus every model
\* owned, through sub groups, by a top-level (grandparent) group of a keying
\* group whose object dependency is selected.
C4_SelectionMode ==
    (resolved.done /\ keyingMode = "Selection") =>
        /\ resolved.active = selected
        /\ resolved.full = selected \cup UNION {OwnedBy(t) : t \in TopOfSelected}

\* Selection mode, a selected group with a grandparent that owns a model that
\* is not selected
C4_Witness ==
    /\ resolved.done
    /\ keyingMode = "Selection"
    /\ TopOfSelected # {}
    /\ ParentsOfSelected \ TopOfSelected # {}
    /\ resolved.full # selected
    /\ resolved.active = selected

\* C5: BodyPart adds the models of the immediate parent groups to the
\* selection; FullBody and FullBodyNoPull add those of the grandparent groups.
C5_ActiveByMode ==
    resolved.done =>
        /\ keyingMode = "BodyPart" =>
              resolved.active = selected \cup UNION {OwnedBy(p) : p \in ParentsOfSelected}
        /\ keyingMode \in {"FullBody", "FullBodyNoPull"} =>
              resolved.active = selected \cup UNION {OwnedBy(t) : t \in TopOfSelected}

\* C6: in every keying mode the full-body set holds every model owned by a
\* top-level group above a keying group whose object dependency is selected.
C6_FullBodyHasTop ==
    resolved.done =>
        UNION {OwnedBy(t) : t \in TopOfSelected} \subseteq resolved.full

\* ------------------------------------------------------ InbetweenerOverlay
\* apply_inbetween with the sign of a negative value kept
BlendPlan_SignKept(bfc, v, cur, pp, np) ==
    IF bfc
    THEN LET other_pose == IF v > 0 THEN np ELSE pp
         IN  [noop |-> cur = NoPose \/ other_pose = NoPose,
              pose_a |-> "current",
              pose_b |-> IF v > 0 THEN "next" ELSE "prev",
              ratio |-> 2 * v]
    ELSE [noop |-> ~(pp # NoPose /\ np # NoPose),
          pose_a |-> "prev",
          pose_b |-> "next",
          ratio |-> v + RatioDen]

\* apply_inbetween without the return on a missing pose
BlendPlan_NoGuard(bfc, v, cur, pp, np) ==
    IF bfc
    THEN [noop |-> FALSE,
          pose_a |-> "current",
          pose_b |-> IF v > 0 THEN "next" ELSE "prev",
          ratio |-> 2 * (IF v > 0 THEN v ELSE 0 - v)]
    ELSE [noop |-> FALSE,
          pose_a |-> "prev",
          pose_b |-> "next",
          ratio |-> v + RatioDen]

\* apply_inbetween with the absolute blend taking the value as the ratio
BlendPlan_NoRemap(bfc, v, cur, pp, np) ==
    IF bfc
    THEN LET other_pose == IF v > 0 THEN np ELSE pp
         IN  [noop |-> cur = NoPose \/ other_pose = NoPose,
              pose_a |-> "current",
              pose_b |-> IF v > 0 THEN "next" ELSE "prev",
              ratio |-> 2 * (IF v > 0 THEN v ELSE 0 - v)]
    ELSE [noop |-> ~(pp # NoPose /\ np # NoPose),
          pose_a |-> "prev",
          pose_b |-> "next",
          ratio |-> 2 * v]

\* apply_inbetween: the two poses and the ratio it hands to
\* apply_inbetween_pose, or noop when it returns before the call
BlendPlan(blend_from_current_pose, v, cur, pp, np) ==
    IF blend_from_current_pose
    THEN LET other_pose == IF v > 0 THEN np ELSE pp
         IN  [noop |-> cur = NoPose \/ other_pose = NoPose,
              pose_a |-> "current",
              pose_b |-> IF v > 0 THEN "next" ELSE "prev",
              ratio |-> 2 * (IF v > 0 THEN v ELSE 0 - v)]
    ELSE [noop |-> ~(pp # NoPose /\ np # NoPose),
          pose_a |-> "prev",
          pose_b |-> "next",
          ratio |-> v + RatioDen]

PoseNamed(name, cur, pp, np) ==
    IF name = "current" THEN cur ELSE IF name = "prev" THEN pp ELSE np

\* InbetweenerOverlay.blend_from_current_pose, set once in __init__
blend_from_current_pose == TRUE

\* cache_nearest_poses with the next pose sampled over the full-body set
cache_nearest_poses_NextOverFullBody(order, msk, mdls, fb, cur, ppt, npt, pp, np, lv) ==
    LET b == find_nearest_keyframes(order, msk, LocalTime)
        changed == b.prev # ppt \/ b.next # npt
        s1 == SampleAt(mdls, lv, b.prev)
        s2 == SampleAt(fb, s1.live, b.next)
    IN  [prev_pose_time |-> IF changed THEN b.prev ELSE ppt,
         next_pose_time |-> IF changed THEN b.next ELSE npt,
         prev_pose |-> IF changed THEN s1.pose ELSE pp,
         next_pose |-> IF changed THEN s2.pose ELSE np,
         live |-> apply_pose(IF changed THEN s2.live ELSE lv, fb, cur)]

\* cache_nearest_poses with the poses sampled again only when the previous
\* bracket time changed
cache_nearest_poses_PrevOnly(order, msk, mdls, fb, cur, ppt, npt, pp, np, lv) ==
    LET b == find_nearest_keyframes(order, msk, LocalTime)
        changed == b.prev # ppt
        s1 == SampleAt(mdls, lv, b.prev)
        s2 == SampleAt(mdls, s1.live, b.next)
    IN  [prev_pose_time |-> b.prev,
         next_pose_time |-> b.next,
         prev_pose |-> IF changed THEN s1.pose ELSE pp,
         next_pose |-> IF changed THEN s2.pose ELSE np,
         live |-> apply_pose(IF changed THEN s2.live ELSE lv, fb, cur)]

\* cache_nearest_poses: the bracket for the mask, the two poses sampled again
\* when a bracket time changed, then apply_pose(fullbody, current_pose)
cache_nearest_poses(order, msk, mdls, fb, cur, ppt, npt, pp, np, lv) ==
    LET b == find_nearest_keyframes(order, msk, LocalTime)
        changed == b.prev # ppt \/ b.next # npt
        s1 == SampleAt(mdls, lv, b.prev)
        s2 == SampleAt(mdls, s1.live, b.next)
    IN  [prev_pose_time |-> IF changed THEN b.prev ELSE ppt,
         next_pose_time |-> IF changed THEN b.next ELSE npt,
         prev_pose |-> IF changed THEN s1.pose ELSE pp,
         next_pose |-> IF changed THEN s2.pose ELSE np,
         live |-> apply_pose(IF changed THEN s2.live ELSE lv, fb, cur)]

\* activate(): nothing when no model is active, else InbetweenerOverlay(...):
\* current_pose over fullbody, then start_editing()
Activate ==
    /\ overlay # "active"
    /\ sessions < MaxSessions
    /\ \E r \in {get_active_keying_group_models(keyingMode)} :
           IF r.active = {}
           THEN /\ last' = [NoLast EXCEPT !.op = "activate_empty"]
                /\ UNCHANGED <<hostVars, overlayVars, found, resolved, auxVars>>
           ELSE \E order \in Orders(r.active), cur \in {get_pose(r.full, live)} :
                \E c \in {cache_nearest_poses(order, mask, r.active, r.full, cur,
                                               NoTime, NoTime, NoPose, NoPose, live)} :
                       /\ models' = r.active
                       /\ fullbody' = r.full
                       /\ current_pose' = cur
                       /\ prev_pose_time' = c.prev_pose_time
                       /\ next_pose_time' = c.next_pose_time
                       /\ prev_pose' = c.prev_pose
                       /\ next_pose' = c.next_pose
                       /\ live' = c.live
                       /\ value' = 0
                       /\ undoOpen' = undoOpen + 1
                       /\ sessions' = sessions + 1
                       /\ overlay' = "active"
                       /\ last' = [NoLast EXCEPT !.op = "activate"]
                       /\ UNCHANGED <<keyset, LocalTime, quatInterp, selected, depSelected,
                                      subGroups, propOwner, keyingMode, undoEnds, mask,
                                      found, resolved, auxVars>>

\* apply_inbetween(value) on the scene lv under the mask msk
ApplyInbetween(v, msk, lv, pp, np) ==
    \E plan \in {BlendPlan(blend_from_current_pose, v, current_pose, pp, np)} :
    LET a == PoseNamed(plan.pose_a, current_pose, pp, np)
        b == PoseNamed(plan.pose_b, current_pose, pp, np)
    IN  IF plan.noop
        THEN /\ live' = lv
             /\ last' = [NoLast EXCEPT !.op = "blend_skipped"]
        ELSE \E W \in WrittenSets(models, DOMAIN a \cap DOMAIN b) :
                /\ live' = apply_inbetween_pose(lv, W, a, b, plan.ratio, msk)
                /\ last' = [op |-> "blend", pose_a |-> plan.pose_a, pose_b |-> plan.pose_b,
                            ratio |-> plan.ratio, targets |-> models, written |-> W,
                            raised |-> ~(models \subseteq DOMAIN a \cap DOMAIN b),
                            pose |-> NoPose]

\* mouseMoveEvent -> update_value(value) -> apply_inbetween(value)
MouseMove ==
    /\ overlay = "active"
    /\ \E v \in Ratios :
          /\ value' = v
          /\ ApplyInbetween(v, mask, live, prev_pose, next_pose)
    /\ UNCHANGED <<keyset, LocalTime, quatInterp, selected, depSelected, subGroups,
                   propOwner, keyingMode, undoOpen, undoEnds, sessions, overlay, models,
                   fullbody, current_pose, prev_pose, next_pose, prev_pose_time,
                   next_pose_time, mask, found, resolved, auxVars>>

\* keyPressEvent on a toggle key: the setter of translation / rotation / scale,
\* then on_trs_changed(): cache_nearest_poses() and apply_inbetween(value)
ToggleChannel ==
    /\ overlay = "active"
    /\ \E ch \in Channels, order \in Orders(models) :
          \E msk \in {[mask EXCEPT ![ch] = ~mask[ch]]} :
          \E c \in {cache_nearest_poses(order, msk, models, fullbody, current_pose,
                                       prev_pose_time, next_pose_time,
                                       prev_pose, next_pose, live)} :
              /\ mask' = msk
              /\ prev_pose_time' = c.prev_pose_time
              /\ next_pose_time' = c.next_pose_time
              /\ prev_pose' = c.prev_pose
              /\ next_pose' = c.next_pose
              /\ ApplyInbetween(value, msk, c.live, c.prev_pose, c.next_pose)
    /\ UNCHANGED <<keyset, LocalTime, quatInterp, selected, depSelected, subGroups,
                   propOwner, keyingMode, undoOpen, undoEnds, sessions, overlay, models,
                   fullbody, current_pose, value, found, resolved, auxVars>>

\* the fields of the overlay once deleteLater() has destroyed it; the T / R / S
\* flags stay behind in the QSettings
Destroyed ==
    /\ overlay' = "closed"
    /\ models' = {}
    /\ fullbody' = {}
    /\ current_pose' = NoPose
    /\ prev_pose' = NoPose
    /\ next_pose' = NoPose
    /\ prev_pose_time' = NoTime
    /\ next_pose_time' = NoTime
    /\ value' = 0

\* close(): deleteLater(), end_editing() ends the undo transaction
Close ==
    /\ overlay = "active"
    /\ Destroyed
    /\ undoOpen' = undoOpen - 1
    /\ undoEnds' = undoEnds + 1
    /\ last' = [NoLast EXCEPT !.op = "close"]
    /\ UNCHANGED <<keyset, LocalTime, live, quatInterp, selected, depSelected, subGroups,
                   propOwner, keyingMode, sessions, mask, found, resolved, auxVars>>

\* cancel(): apply_pose(models, current_pose), then close() unless it raised
Cancel ==
    /\ overlay = "active"
    /\ \E W \in WrittenSets(models, DOMAIN current_pose) :
          /\ live' = apply_pose(live, W, current_pose)
          /\ IF models \subseteq DOMAIN current_pose
             THEN /\ Destroyed
                  /\ undoOpen' = undoOpen - 1
                  /\ undoEnds' = undoEnds + 1
                  /\ last' = [NoLast EXCEPT !.op = "cancel", !.targets = models,
                                           !.written = W, !.pose = current_pose]
             ELSE /\ last' = [NoLast EXCEPT !.op = "cancel", !.targets = models,
                                           !.written = W, !.pose = current_pose,
                                           !.raised = TRUE]
                  /\ UNCHANGED <<overlay, undoOpen, undoEnds, models, fullbody,
                                 current_pose, prev_pose, next_pose, prev_pose_time,
                                 next_pose_time, value>>
    /\ UNCHANGED <<keyset, LocalTime, quatInterp, selected, depSelected, subGroups,
                   propOwner, keyingMode, sessions, mask, found, resolved, auxVars>>

\* -------------------------------------- specification of the overlay session
MidTime == (RangeStart + RangeStop) \div 2
SessionHierarchies == {{<<g, g + 1>> : g \in 1..(n - 1)} : n \in 2..NumGroups}

Init ==
    /\ keyset \in SessionKeySets
    /\ LocalTime = MidTime
    /\ subGroups \in SessionHierarchies
    /\ propOwner = [g \in Groups |-> IF g \in Models THEN g ELSE NoModel]
    /\ selected \in {{}, {1}}
    /\ depSelected = selected \cap Groups
    /\ keyingMode \in KeyingModes
    /\ resolved = NoResolved
    /\ found = NoFound
    /\ IdleHost /\ IdleOverlay /\ IdleAux

Next == Activate \/ MouseMove \/ ToggleChannel \/ Close \/ Cancel

Spec == Init /\ [][Next]_vars

\* -------------------------------------------- properties of the overlay
\* the translation / rotation / scaling that apply_pose writes for one model
PoseChannels(tr) == [c \in Channels |-> IF c = "T" THEN tr.translation
                                        ELSE IF c = "R" THEN tr.rotation
                                        ELSE tr.scaling]

\* C2: a cancel leaves every channel of every model of the session equal to the
\* pose captured at session start and ends the undo transaction that
\* start_editing began, once.
C2_CancelRestores ==
    last.op = "cancel" =>
        /\ \A m \in last.targets :
              m \in DOMAIN last.pose /\ live[m] = PoseChannels(last.pose[m])
        /\ overlay = "closed"
        /\ undoOpen = 0
        /\ undoEnds = sessions

\* C7: prev_pose, current_pose and next_pose have the same keys, the active
\* models.
C7_SameKeySets ==
    (overlay = "active" /\ prev_pose # NoPose /\ current_pose # NoPose
                        /\ next_pose # NoPose)
    => /\ DOMAIN prev_pose = DOMAIN current_pose
       /\ DOMAIN next_pose = DOMAIN current_pose
       /\ DOMAIN current_pose = models

\* C7 as amended: in an overlay session prev_pose and next_pose have the same
\* keys, the active models resolved at activation, and the keys of
\* current_pose are the full-body set resolved at activation.
C7_KeySets ==
    overlay = "active" =>
        /\ prev_pose # NoPose /\ next_pose # NoPose /\ current_pose # NoPose
        /\ DOMAIN prev_pose = models
        /\ DOMAIN next_pose = models
        /\ DOMAIN current_pose = fullbody
        /\ models = get_active_keying_group_models(keyingMode).active
        /\ fullbody = get_active_keying_group_models(keyingMode).full

\* a session whose full-body set is larger than its active set, after a
\* channel toggle moved the bracket and the poses were sampled again
C7_Witness ==
    /\ overlay = "active"
    /\ models # fullbody
    /\ models \subseteq fullbody
    /\ last.op = "blend"
    /\ mask = [c \in Channels |-> c = "S"]
    /\ prev_pose_time # RangeStart
    /\ DOMAIN next_pose # DOMAIN current_pose

\* the linear blend of two channel values at the slider value v (over RatioDen)
BlendAt(a, b, v) == (a * RatioDen + (b - a) * v) \div RatioDen

\* C10: blending from the current pose, a value r > 0 blends current -> next
\* at r, a value r < 0 blends current -> previous at |r|, and r = 0 writes the
\* current pose on every enabled channel.
C10_BlendFromCurrent ==
    last.op = "blend" =>
        LET other == IF value > 0 THEN next_pose ELSE prev_pose
            r == IF value > 0 THEN value ELSE 0 - value
        IN  /\ last.pose_a = "current"
            /\ last.pose_b = (IF value > 0 THEN "next" ELSE "prev")
            /\ last.ratio = 2 * r
            /\ ~last.raised => last.written = models
            /\ \A m \in last.written :
                  /\ mask["T"] => live[m]["T"] = BlendAt(current_pose[m].translation,
                                                         other[m].translation, r)
                  /\ mask["S"] => live[m]["S"] = BlendAt(current_pose[m].scaling,
                                                         other[m].scaling, r)
                  /\ value = 0 =>
                        \A c \in Channels :
                            mask[c] => live[m][c] = PoseChannels(current_pose[m])[c]

\* a blend toward the previous pose at a negative value that moved a model
C10_Witness ==
    /\ last.op = "blend"
    /\ ~last.raised
    /\ value < 0
    /\ \E m \in models : mask["T"] /\ live[m]["T"] # current_pose[m].translation

\* the scene before the session: every channel as the user posed it
PosedScene == [m \in Models |-> [c \in Channels |-> PosedValue(m, c)]]

\* the default channel flags of the overlay
DefaultMask == [c \in Channels |-> c # "S"]

\* C19: in an overlay session, after every channel toggle, the cached bracket
\* is find_nearest_keyframes(models, mask) at the current time, the cached
\* previous and next poses are the poses sampled at the cached bracket times,
\* and a blend uses these poses.
C19_BracketFollowsMask ==
    overlay = "active" =>
        /\ \E order \in Orders(models) :
              LET b == find_nearest_keyframes(order, mask, LocalTime)
              IN  prev_pose_time = b.prev /\ next_pose_time = b.next
        /\ prev_pose = SampleAt(models, PosedScene, prev_pose_time).pose
        /\ next_pose = SampleAt(models, PosedScene, next_pose_time).pose
        /\ last.op = "blend" =>
              LET t == IF value > 0 THEN next_pose_time ELSE prev_pose_time
                  other == SampleAt(models, PosedScene, t).pose
                  r == IF value > 0 THEN value ELSE 0 - value
              IN  \A m \in last.written :
                      /\ mask["T"] => live[m]["T"] = BlendAt(current_pose[m].translation,
                                                             other[m].translation, r)
                      /\ mask["S"] => live[m]["S"] = BlendAt(current_pose[m].scaling,
                                                             other[m].scaling, r)

\* a session whose mask was toggled to a bracket that the default mask does
\* not give, on both sides, followed by a blend that moved a model
C19_Witness ==
    /\ overlay = "active"
    /\ mask # DefaultMask
    /\ \A order \in Orders(models) :
          LET b == find_nearest_keyframes(order, DefaultMask, LocalTime)
          IN  prev_pose_time # b.prev /\ next_pose_time # b.next
    /\ last.op = "blend"
    /\ \E m \in last.written, c \in Channels :
          mask[c] /\ live[m][c] # PoseChannels(current_pose[m])[c]

\* ------------------------------- specification of apply_inbetween_pose alone
\* the scene in which every model holds the seed values, shifted by its index
SeedScene(seed) ==
    [m \in Models |-> [c \in Channels |->
        IF c = "T" THEN seed.t + (m - 1) * BlendDen
        ELSE IF c = "R" THEN seed.r + (m - 1)
        ELSE seed.s + (m - 1) * BlendDen]]

PoseSeeds == [t : {0, 10 * BlendDen}, r : {0, HalfTurn, AngleMod - 1},
              s : {BlendDen, 2 * BlendDen}]

\* the ratios handed to apply_inbetween_pose, overshoot included
BlendRatios == (0 - 1)..(BlendDen + 1)

\* the key sets of a pose: every model, or all but one
PoseDomains == {Models} \cup {Models \ {m} : m \in Models}

InitBlend ==
    /\ \E S \in SUBSET Models \ {{}}, sa \in PoseSeeds, sb \in PoseSeeds,
          Da \in PoseDomains, Db \in PoseDomains, k \in BlendRatios, msk \in Masks :
          call = [op |-> "ready", models |-> S,
                  pose_a |-> get_pose(Da, SeedScene(sa)),
                  pose_b |-> get_pose(Db, SeedScene(sb)),
                  ratio |-> k, mask |-> msk,
                  before |-> [m \in Models |-> [c \in Channels |-> PosedValue(m, c)]],
                  written |-> {}, raised |-> FALSE]
    /\ keyset = {}
    /\ LocalTime = RangeStart
    /\ found = NoFound
    /\ ctx = NoCtx
    /\ IdleHost /\ IdleGroups /\ IdleOverlay /\ IdleSlider

\* one call apply_inbetween_pose(models, pose_a, pose_b, ratio, use_...)
ApplyInbetweenPose ==
    /\ call.op = "ready"
    /\ \E W \in WrittenSets(call.models, DOMAIN call.pose_a \cap DOMAIN call.pose_b) :
          /\ live' = apply_inbetween_pose(live, W, call.pose_a, call.pose_b,
                                          call.ratio, call.mask)
          /\ call' = [call EXCEPT !.op = "done", !.written = W,
                                  !.raised = ~(call.models \subseteq
                                               DOMAIN call.pose_a \cap DOMAIN call.pose_b)]
    /\ UNCHANGED <<keyset, LocalTime, quatInterp, selected, depSelected, subGroups,
                   propOwner, keyingMode, undoOpen, undoEnds, overlayVars, last, found,
                   resolved, ctx, sliderVars>>

NextBlend == ApplyInbetweenPose

SpecBlend == InitBlend /\ [][NextBlend]_vars

\* ----------------------------------------- properties of apply_inbetween_pose
\* C12: apply_inbetween_pose never writes a channel whose flag is false: the
\* channels of every model that the mask leaves out are the same before and
\* after the call.
C12_MaskedChannelsKept ==
    call.op = "done" =>
        \A m \in Models, c \in Channels :
            ~call.mask[c] => live[m][c] = call.before[m][c]

\* a translation-only call that moved a model
C12_Witness ==
    /\ call.op = "done"
    /\ call.mask = [c \in Channels |-> c = "T"]
    /\ \E m \in call.written :
          /\ live[m]["T"] # call.before[m]["T"]
          /\ live[m]["R"] = call.before[m]["R"]
          /\ call.pose_b[m].scaling # call.before[m]["S"]

C14_Lerp ==
    call.op = "done" =>
        \A m \in call.written :
            /\ call.mask["T"] =>
                  live[m]["T"] * BlendDen =
                      call.pose_a[m].translation * BlendDen
                      + (call.pose_b[m].translation - call.pose_a[m].translation) * call.ratio
            /\ call.mask["S"] =>
                  live[m]["S"] * BlendDen =
                      call.pose_a[m].scaling * BlendDen
                      + (call.pose_b[m].scaling - call.pose_a[m].scaling) * call.ratio
            /\ (/\ call.mask = [c \in Channels |-> c = "T"]
                /\ call.pose_a[m].translation = 0
                /\ call.pose_b[m].translation = 10 * BlendDen
                /\ 2 * call.ratio = BlendDen)
               => live[m]["T"] = 5 * BlendDen

\* the blend of translation 0 and translation 10 at ratio 0.5, translation only
C14_Witness ==
    /\ call.op = "done"
    /\ call.mask = [c \in Channels |-> c = "T"]
    /\ 2 * call.ratio = BlendDen
    /\ \E m \in call.written :
          /\ call.pose_a[m].translation = 0
          /\ call.pose_b[m].translation = 10 * BlendDen
          /\ live[m]["T"] = 5 * BlendDen

\* C17: when a model of the blended set is missing from one of the two poses
\* the call fails, and no model holds a value the failed call wrote.
C17_FailsWithoutWrites ==
    (call.op = "done" /\ ~(call.models \subseteq DOMAIN call.pose_a \cap DOMAIN call.pose_b))
    => /\ call.raised
       /\ live = call.before

\* ------------------------------------------- specification of set_time_ctx
\* with set_time_ctx(time, eval): <block>, one step per method; the block is
\* a pose sample, and any host call in it may raise
MaxContexts == 2

InitTimeCtx ==
    /\ keyset \in KeySetsUpTo(1, KeySlots)
    /\ LocalTime \in RangeStart..RangeStop
    /\ call = NoCall
    /\ ctx = [NoCtx EXCEPT !.origin = LocalTime]
    /\ found = NoFound
    /\ IdleHost /\ IdleGroups /\ IdleOverlay /\ IdleSlider

\* __exit__ going to the time the context was asked to visit
ExitTime_Target(c) == c.time

\* the time __exit__ goes to
ExitTime(c) == c._cached_time

\* __init__: the arguments and the current time are stored
CtxConstruct ==
    /\ ctx.pc \in {"none", "exited"}
    /\ ctx.count < MaxContexts
    /\ \E t \in Frames, ev \in BOOLEAN :
          ctx' = [ctx EXCEPT !.pc = "constructed", !.time = t, !.eval = ev,
                             !._cached_time = LocalTime, !.raised = FALSE,
                             !.count = ctx.count + 1]
    /\ UNCHANGED <<hostVars, overlayVars, last, found, resolved, call, sliderVars>>

\* __enter__: Goto(time), then Scene.Evaluate() when eval; an Evaluate that
\* raises leaves the with statement before its block, and __exit__ is not run
CtxEnter ==
    /\ ctx.pc = "constructed"
    /\ LocalTime' = ctx.time
    /\ \/ /\ live' = (IF ctx.eval THEN Evaluate(live, ctx.time) ELSE live)
          /\ ctx' = [ctx EXCEPT !.pc = "entered"]
       \/ /\ ctx.eval
          /\ live' = live
          /\ ctx' = [ctx EXCEPT !.pc = "enter_raised", !.raised = TRUE]
    /\ UNCHANGED <<keyset, quatInterp, selected, depSelected, subGroups, propOwner,
                   keyingMode, undoOpen, undoEnds, overlayVars, last, found, resolved, call, sliderVars>>

\* the block: get_pose(models) returns or raises
CtxSample ==
    /\ ctx.pc = "entered"
    /\ \E raises \in BOOLEAN :
          ctx' = [ctx EXCEPT !.pc = "block_left", !.raised = raises]
    /\ UNCHANGED <<hostVars, overlayVars, last, found, resolved, call, sliderVars>>

\* __exit__, run on every way out of the block: Goto(_cached_time)
CtxExit ==
    /\ ctx.pc = "block_left"
    /\ LocalTime' = ExitTime(ctx)
    /\ ctx' = [ctx EXCEPT !.pc = "exited"]
    /\ UNCHANGED <<keyset, live, quatInterp, selected, depSelected, subGroups, propOwner,
                   keyingMode, undoOpen, undoEnds, overlayVars, last, found, resolved, call, sliderVars>>

NextTimeCtx == CtxConstruct \/ CtxEnter \/ CtxSample \/ CtxExit

SpecTimeCtx == InitTimeCtx /\ [][NextTimeCtx]_vars

\* --------------------------------------------- properties of set_time_ctx
\* C15: after a pose capture at another time through set_time_ctx the playback
\* time is the time before the capture, on every way out of the with block,
\* an exception raised while sampling included.
C15_TimeRestored ==
    ctx.pc = "exited" => LocalTime = ctx.origin

\* a second capture at another time whose sampling raised, left through __exit__
C15_Witness ==
    /\ ctx.pc = "exited"
    /\ ctx.raised
    /\ ctx.count = MaxContexts
    /\ ctx.time # ctx.origin
    /\ LocalTime = ctx.origin

\* ------------------------------------------------------ InBetweenUI, Slider
\* The fields of InBetweenUI (models, current_pose, prev_pose, next_pose,
\* prev_pose_time, next_pose_time), the flags of its TRSOption (mask) and the
\* value of its Slider (value) are held in the variables of the same names.
\* ui.py calls get_models and get_closest_keyframes: get_models is the
\* function of src/src/pose_inbetween.py, get_closest_keyframes the name it
\* gives find_nearest_keyframes.
MaxGestures == 2
MaxToolKeys == 2

\* get_models(): the selection, widened through the keying groups; every
\* keying mode but Selection and BodyPart takes the grandparent groups
get_models(mode) ==
    IF mode = "Selection" THEN selected
    ELSE LET parents == UNION {ParentKeyingGroups(g) : g \in depSelected}
             groups == IF mode = "BodyPart" THEN parents
                       ELSE UNION {ParentKeyingGroups(p) : p \in parents}
         IN  selected \cup UNION {ModelsFromGroup(g) : g \in groups}

get_closest_keyframes(order, msk, t) == find_nearest_keyframes(order, msk, t)

\* InBetweenUI.cache_nearest_poses: the models, the bracket, Evaluate and the
\* current pose, the two sampled poses, then apply_pose(models, current_pose)
ui_cache_nearest_poses(order, msk, lv) ==
    LET mdls == Range(order)
        b == get_closest_keyframes(order, msk, LocalTime)
        evaluated == Evaluate(lv, LocalTime)
        cur == get_pose(mdls, evaluated)
        s1 == SampleAt(mdls, evaluated, b.prev)
        s2 == SampleAt(mdls, s1.live, b.next)
    IN  [models |-> mdls,
         prev_pose_time |-> b.prev,
         next_pose_time |-> b.next,
         current_pose |-> cur,
         prev_pose |-> s1.pose,
         next_pose |-> s2.pose,
         live |-> apply_pose(s2.live, mdls, cur)]

\* InBetweenUI.apply_inbeetween(value): the scene it leaves and what it did
apply_inbeetween(bfc, v, msk, lv, mdls, cur, pp, np) ==
    LET plan == BlendPlan(bfc, v, cur, pp, np)
        a == PoseNamed(plan.pose_a, cur, pp, np)
        b == PoseNamed(plan.pose_b, cur, pp, np)
    IN  IF plan.noop
        THEN [live |-> lv, last |-> [NoLast EXCEPT !.op = "blend_skipped"]]
        ELSE [live |-> apply_inbetween_pose(lv, mdls, a, b, plan.ratio, msk),
              last |-> [op |-> "blend", pose_a |-> plan.pose_a, pose_b |-> plan.pose_b,
                        ratio |-> plan.ratio, targets |-> mdls, written |-> mdls,
                        raised |-> FALSE, pose |-> NoPose]]

\* set_inbetween_value without its clamp
ClampedValue_Never(v, disable_clamp, overshoot) == v

\* set_inbetween_value: the value stored, clamped to [-1, 1] unless overshoot
\* is allowed or the clamp is disabled
ClampedValue(v, disable_clamp, overshoot) ==
    IF ~disable_clamp /\ (v > RatioDen \/ v < 0 - RatioDen) /\ ~overshoot
    THEN (IF v < 0 THEN 0 - RatioDen ELSE RatioDen)
    ELSE v

\* the values inside the range of the slider
InRange == {v \in Ratios : 0 - RatioDen <= v /\ v <= RatioDen}
\* the values of the tick buttons: -0.75, -0.5, -0.25, 0.25, 0.5, 0.75
TickValues == {v \in InRange : v # 0 /\ v # RatioDen /\ v # 0 - RatioDen
                                /\ (4 * v) % RatioDen = 0}

\* what no handler of the slider or of the panel touches
toolFixed == <<keyset, LocalTime, quatInterp, selected, depSelected, subGroups,
               propOwner, keyingMode, sessions, overlay, fullbody, found, resolved,
               call, ctx>>

\* undo transactions begun so far
Begins == undoOpen + undoEnds

\* __beginEditing() -> on_begin_editing(), then the value of the press:
\* set_inbetween_value(v) and apply_inbeetween, or the value 0 set with the
\* signals blocked
BeginEditing(v, signal) ==
    /\ Begins < MaxGestures
    /\ \E order \in Orders(get_models(keyingMode)) :
       \E c \in {ui_cache_nearest_poses(order, mask, live)} :
       \E w \in {ClampedValue(v, FALSE, overshoot_allowed)} :
       \E r \in {IF signal
                  THEN apply_inbeetween(slider_blend_from_current_pose, w, mask, c.live,
                                        c.models, c.current_pose, c.prev_pose, c.next_pose)
                  ELSE [live |-> c.live, last |-> NoLast]} :
          /\ models' = c.models
          /\ prev_pose_time' = c.prev_pose_time
          /\ next_pose_time' = c.next_pose_time
          /\ current_pose' = c.current_pose
          /\ prev_pose' = c.prev_pose
          /\ next_pose' = c.next_pose
          /\ live' = r.live
          /\ value' = w
          /\ last' = [r.last EXCEPT !.op = IF r.last.op = "blend" THEN "begin_blend"
                                           ELSE "begin"]
    /\ undoOpen' = undoOpen + 1
    /\ is_editing' = TRUE
    /\ UNCHANGED <<undoEnds, mask, slider_blend_from_current_pose, overshoot_allowed,
                   toolFixed>>

\* Slider.mousePressEvent, left button on the groove
SliderPress ==
    /\ ~button_down
    /\ button_down' = TRUE
    /\ \E modifier \in {"none", "ctrl", "shift"}, v \in InRange :
          IF modifier = "shift"
          THEN BeginEditing(0, ~slider_blend_from_current_pose)
          ELSE BeginEditing(v, TRUE)
    /\ UNCHANGED handle_pressed

\* Slider.mousePressEvent, left button on the handle: nothing begins yet
PressHandle ==
    /\ ~button_down
    /\ ~handle_pressed
    /\ button_down' = TRUE
    /\ handle_pressed' = TRUE
    /\ last' = [NoLast EXCEPT !.op = "press_handle"]
    /\ UNCHANGED <<live, undoOpen, undoEnds, models, current_pose, prev_pose, next_pose,
                   prev_pose_time, next_pose_time, value, mask, is_editing,
                   slider_blend_from_current_pose, overshoot_allowed, toolFixed>>

\* Slider.mouseMoveEvent: the first move after a press on the handle calls
\* mousePressEvent again; a move while editing sets the value
SliderMove ==
    /\ button_down
    /\ IF handle_pressed /\ ~is_editing
       THEN /\ \E v \in InRange : BeginEditing(v, TRUE)
            /\ UNCHANGED <<handle_pressed, button_down>>
       ELSE IF is_editing
       THEN /\ \E v \in Ratios :
               \E w \in {ClampedValue(v, FALSE, overshoot_allowed)} :
               \E r \in {apply_inbeetween(slider_blend_from_current_pose, w, mask, live,
                                           models, current_pose, prev_pose, next_pose)} :
                  /\ value' = w
                  /\ live' = r.live
                  /\ last' = r.last
            /\ UNCHANGED <<undoOpen, undoEnds, models, current_pose, prev_pose, next_pose,
                           prev_pose_time, next_pose_time, mask, sliderVars, toolFixed>>
       ELSE UNCHANGED vars

\* Slider.mouseReleaseEvent -> __endEditing(): the value goes back to 0 with
\* the signals blocked, endEditing -> on_end_editing() -> TransactionEnd()
SliderRelease ==
    /\ button_down
    /\ undoEnds < MaxGestures
    /\ button_down' = FALSE
    /\ is_editing' = FALSE
    /\ handle_pressed' = FALSE
    /\ value' = 0
    /\ undoOpen' = undoOpen - 1
    /\ undoEnds' = undoEnds + 1
    /\ last' = [NoLast EXCEPT !.op = "end"]
    /\ UNCHANGED <<live, models, current_pose, prev_pose, next_pose, prev_pose_time,
                   next_pose_time, mask, slider_blend_from_current_pose,
                   overshoot_allowed, toolFixed>>

\* __btn_press_event(x) of a tick button: editing without beginEditing
ButtonPress ==
    /\ ~button_down
    /\ button_down' = TRUE
    /\ is_editing' = TRUE
    /\ \E x \in TickValues :
       \E w \in {ClampedValue(x, FALSE, overshoot_allowed)} :
       \E r \in {apply_inbeetween(slider_blend_from_current_pose, w, mask, live,
                                   models, current_pose, prev_pose, next_pose)} :
          /\ value' = w
          /\ live' = r.live
          /\ last' = r.last
    /\ UNCHANGED <<undoOpen, undoEnds, models, current_pose, prev_pose, next_pose,
                   prev_pose_time, next_pose_time, mask, handle_pressed,
                   slider_blend_from_current_pose, overshoot_allowed, toolFixed>>

\* Slider.mousePressEvent, right button: show_context_menu_options; the menu
\* may take the release of the button
ContextMenu ==
    /\ ~button_down
    /\ \E action \in {"blend", "overshoot"} :
          /\ slider_blend_from_current_pose' =
                 (IF action = "blend" THEN ~slider_blend_from_current_pose
                  ELSE slider_blend_from_current_pose)
          /\ overshoot_allowed' =
                 (IF action = "overshoot" THEN ~overshoot_allowed ELSE overshoot_allowed)
    /\ button_down' \in BOOLEAN
    /\ last' = [NoLast EXCEPT !.op = "settings"]
    /\ UNCHANGED <<live, undoOpen, undoEnds, models, current_pose, prev_pose, next_pose,
                   prev_pose_time, next_pose_time, value, mask, is_editing,
                   handle_pressed, toolFixed>>

\* Slider.mousePressEvent, double click on the handle:
\* show_context_menu_value_input: __beginEditing(), the values typed in the
\* menu set with the clamp disabled, __endEditing()
ValueInput ==
    /\ ~button_down
    /\ Begins < MaxGestures
    /\ undoEnds < MaxGestures
    /\ \E order \in Orders(get_models(keyingMode)),
          typed \in {<<>>} \cup {<<v>> : v \in Ratios} :
       \E c \in {ui_cache_nearest_poses(order, mask, live)} :
       \E r \in {IF typed # <<>>
                  THEN apply_inbeetween(slider_blend_from_current_pose, typed[1], mask, c.live,
                                        c.models, c.current_pose, c.prev_pose, c.next_pose)
                  ELSE [live |-> c.live, last |-> NoLast]} :
          /\ models' = c.models
          /\ prev_pose_time' = c.prev_pose_time
          /\ next_pose_time' = c.next_pose_time
          /\ current_pose' = c.current_pose
          /\ prev_pose' = c.prev_pose
          /\ next_pose' = c.next_pose
          /\ live' = r.live
          /\ last' = [r.last EXCEPT !.op = "value_input"]
    /\ value' = 0
    /\ is_editing' = FALSE
    /\ handle_pressed' = FALSE
    /\ undoEnds' = undoEnds + 1
    /\ button_down' \in BOOLEAN
    /\ UNCHANGED <<undoOpen, mask, slider_blend_from_current_pose, overshoot_allowed,
                   toolFixed>>

\* the buttons of the TRSOption that get clicked
TRSSenders == {"T"}

\* TRSOption.__on_button_clicked: the clicked button toggles, or with Ctrl it
\* alone stays checked
ClickTRS ==
    /\ ~button_down
    /\ \E sender \in TRSSenders, isolate \in BOOLEAN :
          mask' = IF isolate THEN [c \in Channels |-> c = sender]
                  ELSE [mask EXCEPT ![sender] = ~mask[sender]]
    /\ last' = [NoLast EXCEPT !.op = "settings"]
    /\ UNCHANGED <<live, undoOpen, undoEnds, models, current_pose, prev_pose, next_pose,
                   prev_pose_time, next_pose_time, value, sliderVars, toolFixed>>

\* ----------------------------------- specification of the in-betweener panel
\* the scenes of the panel: keys of the translation of model 1, one frame
\* inside either edge of the range
ToolKeySets ==
    KeySetsUpTo(MaxToolKeys,
                {k \in KeySlots : /\ k[1] = 1 /\ k[2] = "T"
                                  /\ k[3] \in {RangeStart + OneFrame, RangeStop - OneFrame}})

InitTool ==
    /\ keyset \in ToolKeySets
    /\ LocalTime = MidTime
    /\ subGroups = {<<g, g + 1>> : g \in 1..(NumGroups - 1)}
    /\ propOwner = [g \in Groups |-> IF g \in Models THEN g ELSE NoModel]
    /\ selected \in {{}, {1}}
    /\ depSelected = selected \cap Groups
    /\ keyingMode \in KeyingModes
    /\ resolved = NoResolved
    /\ found = NoFound
    /\ call = NoCall
    /\ ctx = NoCtx
    /\ is_editing = FALSE
    /\ handle_pressed = FALSE
    /\ slider_blend_from_current_pose \in BOOLEAN
    /\ overshoot_allowed \in BOOLEAN
    /\ button_down = FALSE
    /\ IdleHost /\ IdleOverlay

NextTool ==
    \/ SliderPress \/ PressHandle \/ SliderMove \/ SliderRelease
    \/ ButtonPress \/ ContextMenu \/ ValueInput \/ ClickTRS

SpecTool == InitTool /\ [][NextTool]_vars

\* ------------------------------------------------ properties of the panel
\* C11: in absolute-blend mode the value r is remapped to (r + 1) / 2 and the
\* blend goes from the previous pose to the next pose, the current pose not
\* read: r = -1 writes the previous pose, r = +1 the next pose, r = 0 their
\* midpoint.
C11_AbsoluteBlend ==
    (last.op \in {"blend", "begin_blend"} /\ ~slider_blend_from_current_pose) =>
        /\ last.pose_a = "prev"
        /\ last.pose_b = "next"
        /\ last.ratio = value + RatioDen
        /\ \A m \in models :
              /\ mask["T"] =>
                    live[m]["T"] * BlendDen =
                        prev_pose[m].translation * BlendDen
                        + (next_pose[m].translation - prev_pose[m].translation)
                          * (value + RatioDen)
              /\ mask["S"] =>
                    live[m]["S"] * BlendDen =
                        prev_pose[m].scaling * BlendDen
                        + (next_pose[m].scaling - prev_pose[m].scaling) * (value + RatioDen)
              /\ value = 0 - RatioDen =>
                    \A c \in Channels : mask[c] => live[m][c] = PoseChannels(prev_pose[m])[c]
              /\ value = RatioDen =>
                    \A c \in Channels : mask[c] => live[m][c] = PoseChannels(next_pose[m])[c]
              /\ (value = 0 /\ mask["T"]) =>
                    2 * live[m]["T"] = prev_pose[m].translation + next_pose[m].translation

\* an absolute blend at the midpoint of two poses that differ, away from the
\* current pose
C11_Witness ==
    /\ last.op = "blend"
    /\ ~slider_blend_from_current_pose
    /\ value = 0
    /\ \E m \in models :
          /\ mask["T"]
          /\ prev_pose[m].translation # next_pose[m].translation
          /\ live[m]["T"] # current_pose[m].translation
          /\ 2 * live[m]["T"] = prev_pose[m].translation + next_pose[m].translation

\* a pose that the blend mode needs for the value v is absent
RequiredPoseAbsent(v) ==
    IF slider_blend_from_current_pose
    THEN current_pose = NoPose \/ (IF v > 0 THEN next_pose ELSE prev_pose) = NoPose
    ELSE prev_pose = NoPose \/ next_pose = NoPose

\* C16: when a pose the blend mode needs is absent, a ratio change returns
\* before the blend: it writes nothing to the scene and raises no error.
C16_NoopOnMissingPose ==
    [][(RequiredPoseAbsent(value') /\ last'.op \in {"blend", "blend_skipped"})
       => /\ last'.op = "blend_skipped"
          /\ ~last'.raised
          /\ live' = live
          /\ undoOpen' = undoOpen]_vars

\* a tick button pressed in absolute mode before any session cached a pose
C16_Witness ==
    /\ last.op = "blend_skipped"
    /\ is_editing
    /\ value # 0
    /\ ~slider_blend_from_current_pose
    /\ prev_pose = NoPose
    /\ live = PosedScene

\* C18: with an empty selection, starting a session does nothing, in the
\* overlay and in the panel: no session, no pose captured, no undo
\* transaction opened, nothing written to the scene.
C18_EmptySelectionNoop ==
    [][(\/ /\ get_active_keying_group_models(keyingMode).active = {}
           /\ last'.op \in {"activate", "activate_empty"}
        \/ /\ get_models(keyingMode) = {}
           /\ last'.op \in {"begin", "begin_blend", "value_input"})
       => UNCHANGED <<live, undoOpen, undoEnds, overlay, is_editing,
                      current_pose, prev_pose, next_pose>>]_vars

\* C20: when a session ends or is cancelled its cached poses are dropped:
\* after the end the session controller holds no cached pose.
C20_PosesDropped ==
    last.op \in {"end", "value_input", "close", "cancel"} =>
        /\ prev_pose = NoPose
        /\ current_pose = NoPose
        /\ next_pose = NoPose

\* the last handler handed a ratio to the blend, and the value it came from
\* lay in [-1, 1]: the blend from the current pose takes |value|, the
\* absolute blend (value + 1) / 2
BlendCalled == last.pose_a # "none"
RatioInRange == 0 <= last.ratio /\ last.ratio <= BlendDen

\* C21: while overshoot_allowed is false, every ratio handed to the blend by
\* any input path (drag, Ctrl-snap, tick button, typed value) has |ratio| <= 1.
C21_NoOvershootAnyPath ==
    (~overshoot_allowed /\ BlendCalled
     /\ last.op \in {"blend", "begin_blend", "value_input"}) => RatioInRange

\* C21, amended: while overshoot_allowed is false, every ratio handed to the
\* blend by a press, a drag, a Ctrl-snap or a tick button has |ratio| <= 1;
\* a typed value is set with the clamp disabled and is outside this bound.
C21_NoOvershootClamped ==
    (~overshoot_allowed /\ BlendCalled /\ last.op \in {"blend", "begin_blend"}) =>
        /\ RatioInRange
        /\ 0 - RatioDen <= value /\ value <= RatioDen

\* a drag with overshoot off held at the edge of the range, written to a model
C21_Witness ==
    /\ ~overshoot_allowed
    /\ last.op = "blend"
    /\ is_editing
    /\ value = RatioDen
    /\ last.ratio = BlendDen
    /\ last.written # {}

\* ------------------------------------- properties of the locator, continued
\* the models the loop of find_nearest_keyframes has not scanned when it
\* breaks: the rest of the order after the model whose scan met the early-out
\* test, none when the loop runs to its end
RECURSIVE UnscannedModels(_, _, _, _, _, _)
UnscannedModels(order, msk, t, b, early_out_prev, early_out_next) ==
    IF order = <<>> THEN <<>>
    ELSE LET m == Head(order)
             b1 == UpdateClosestKeyframe(m, "T", msk["T"], t, b)
             b2 == UpdateClosestKeyframe(m, "R", msk["R"], t, b1)
             b3 == UpdateClosestKeyframe(m, "S", msk["S"], t, b2)
         IN  IF EarlyOut(b3, early_out_prev, early_out_next) THEN Tail(order)
             ELSE UnscannedModels(Tail(order), msk, t, b3, early_out_prev, early_out_next)

Unscanned(order, msk, t) ==
    UnscannedModels(order, msk, t, [prev |-> RangeStart, next |-> RangeStop],
                    RangeStart + OneFrame, RangeStop - OneFrame)

\* C22: find_nearest_keyframes stops before it scanned every object only when
\* both bounds are within one frame of the current time, and then no
\* unscanned object has a searched key strictly between the returned previous
\* and next, other than on the current time.
C22_EarlyOutSound ==
    found # NoFound =>
        LET rest == Range(Unscanned(found.order, found.mask, LocalTime))
        IN  rest # {} =>
               /\ found.prev >= LocalTime - OneFrame
               /\ found.next <= LocalTime + OneFrame
               /\ \A f \in UnionKeys(rest, found.mask) :
                      ~(found.prev < f /\ f < found.next /\ f # LocalTime)

\* get_keyframe_time, the linear scan, over the keys of one FCurve: every key
\* before the current time that is later than the running previous replaces
\* it, every key after it that is earlier than the running next replaces it
RECURSIVE LinearScan(_, _, _, _)
LinearScan(keys, t, time_prev, time_next) ==
    IF keys = <<>> THEN [prev |-> time_prev, next |-> time_next]
    ELSE LET key == Head(keys)
         IN  LinearScan(Tail(keys), t,
                        IF key < t /\ key > time_prev THEN key ELSE time_prev,
                        IF key > t /\ key < time_next THEN key ELSE time_next)

get_keyframe_time(keys, t) == LinearScan(keys, t, RangeStart, RangeStop)

\* the search looked at the one curve of channel c of model m
SingleCurve(m, c) ==
    /\ found # NoFound
    /\ found.order = <<m>>
    /\ found.mask = [x \in Channels |-> x = c]

C24_UndoBalanced ==
    /\ undoOpen \in {0, 1}
    /\ last.op \in {"end", "value_input"} => undoOpen = 0
    /\ last.op \in {"begin", "begin_blend"} => undoOpen = 1

\* C25: every scene write of a ratio change happens inside a session begun
\* for that gesture: on_begin_editing has resolved the selection, located the
\* bracket under the current flags, captured the poses and opened an undo
\* transaction; no ratio change is applied with what an earlier gesture cached.
C25_WritesInsideSession ==
    (last.op \in {"blend", "begin_blend"} /\ last.written # {}) =>
        /\ undoOpen = 1
        /\ models = get_models(keyingMode)
        /\ \E order \in Orders(models) :
              LET b == get_closest_keyframes(order, mask, LocalTime)
              IN  b.prev = prev_pose_time /\ b.next = next_pose_time

\* ------------------------------ specification of the capture at session start
\* The statements that sample the poses when a session starts, one step each:
\* InbetweenerOverlay.__init__ and its cache_nearest_poses, or
\* InBetweenUI.cache_nearest_poses.  call holds the entry point, the position
\* in its statements and the log of what touched the time and the scene.

\* the statements with the capture at the next time put first
CaptureProgram_NextFirst(entry) ==
    IF entry = "overlay"
    THEN <<"sample_current", "locate", "enter_next", "sample_next", "exit",
           "enter_prev", "sample_prev", "exit", "apply_pose">>
    ELSE <<"locate", "evaluate", "sample_current", "enter_next", "sample_next", "exit",
           "enter_prev", "sample_prev", "exit", "apply_pose">>

\* the statements in the order of the source
CaptureProgram(entry) ==
    IF entry = "overlay"
    THEN <<"sample_current", "locate", "enter_prev", "sample_prev", "exit",
           "enter_next", "sample_next", "exit", "apply_pose">>
    ELSE <<"locate", "evaluate", "sample_current", "enter_prev", "sample_prev", "exit",
           "enter_next", "sample_next", "exit", "apply_pose">>

CaptureEntries == {"overlay", "panel"}

\* the statement the capture is at, "done" after the last
CaptureAt ==
    IF call.op # "capture" THEN "none"
    ELSE IF call.pc > Len(CaptureProgram(call.entry)) THEN "done"
    ELSE CaptureProgram(call.entry)[call.pc]

Logged(events) == [call EXCEPT !.pc = call.pc + 1, !.log = call.log \o events]

captureFixed == <<keyset, quatInterp, selected, depSelected, subGroups, propOwner,
                  keyingMode, undoOpen, undoEnds, sessions, overlay, models, fullbody,
                  value, mask, last, found, resolved, ctx, sliderVars>>

InitCapture ==
    /\ keyset \in SessionKeySets
    /\ LocalTime \in RangeStart..RangeStop
    /\ \E entry \in CaptureEntries :
          call = [op |-> "capture", entry |-> entry, pc |-> 1, log |-> <<>>,
                  origin |-> LocalTime, _cached_time |-> NoTime]
    /\ found = NoFound
    /\ ctx = NoCtx
    /\ IdleHost /\ IdleGroups /\ IdleSlider
    /\ sessions = 0
    /\ overlay = "none"
    /\ models = Models
    /\ fullbody = Models
    /\ current_pose = NoPose
    /\ prev_pose = NoPose
    /\ next_pose = NoPose
    /\ prev_pose_time = NoTime
    /\ next_pose_time = NoTime
    /\ value = 0
    /\ mask = DefaultMask
    /\ last = NoLast

\* find_nearest_keyframes / get_closest_keyframes: the two bracket times
CapLocate ==
    /\ CaptureAt = "locate"
    /\ \E order \in Orders(models) :
       \E b \in {find_nearest_keyframes(order, mask, LocalTime)} :
          /\ prev_pose_time' = b.prev
          /\ next_pose_time' = b.next
    /\ call' = Logged(<<>>)
    /\ UNCHANGED <<LocalTime, live, current_pose, prev_pose, next_pose, captureFixed>>

\* fb.FBSystem().Scene.Evaluate() before the current pose, in the panel
CapEvaluate ==
    /\ CaptureAt = "evaluate"
    /\ live' = Evaluate(live, LocalTime)
    /\ call' = Logged(<<"evaluate">>)
    /\ UNCHANGED <<LocalTime, current_pose, prev_pose, next_pose, prev_pose_time,
                   next_pose_time, captureFixed>>

\* current_pose = get_pose(fullbody) in the overlay, get_pose(models) in the panel
CapSampleCurrent ==
    /\ CaptureAt = "sample_current"
    /\ current_pose' = get_pose(IF call.entry = "overlay" THEN fullbody ELSE models, live)
    /\ call' = Logged(<<"sample_current">>)
    /\ UNCHANGED <<LocalTime, live, prev_pose, next_pose, prev_pose_time,
                   next_pose_time, captureFixed>>

\* with set_time_ctx(time, eval=True): __init__ caches the time, __enter__
\* goes to the bracket time and evaluates the scene
CapEnter ==
    /\ CaptureAt \in {"enter_prev", "enter_next"}
    /\ \E t \in {IF CaptureAt = "enter_prev" THEN prev_pose_time ELSE next_pose_time} :
          /\ LocalTime' = t
          /\ live' = Evaluate(live, t)
    /\ call' = [Logged(<<IF CaptureAt = "enter_prev" THEN "goto_prev" ELSE "goto_next",
                         "evaluate">>)
                EXCEPT !._cached_time = LocalTime]
    /\ UNCHANGED <<current_pose, prev_pose, next_pose, prev_pose_time, next_pose_time,
                   captureFixed>>

\* the block of the with statement: get_pose(models)
CapSample ==
    /\ CaptureAt \in {"sample_prev", "sample_next"}
    /\ IF CaptureAt = "sample_prev"
       THEN prev_pose' = get_pose(models, live) /\ next_pose' = next_pose
       ELSE next_pose' = get_pose(models, live) /\ prev_pose' = prev_pose
    /\ call' = Logged(<<CaptureAt>>)
    /\ UNCHANGED <<LocalTime, live, current_pose, prev_pose_time, next_pose_time,
                   captureFixed>>

\* __exit__: Goto(_cached_time), the scene is not evaluated again
CapExit ==
    /\ CaptureAt = "exit"
    /\ LocalTime' = ExitTime(call)
    /\ call' = Logged(<<"restore">>)
    /\ UNCHANGED <<live, current_pose, prev_pose, next_pose, prev_pose_time,
                   next_pose_time, captureFixed>>

\* apply_pose(fullbody, current_pose), apply_pose(models, current_pose) in the panel
CapApplyPose ==
    /\ CaptureAt = "apply_pose"
    /\ live' = apply_pose(live, IF call.entry = "overlay" THEN fullbody ELSE models,
                          current_pose)
    /\ call' = Logged(<<>>)
    /\ UNCHANGED <<LocalTime, current_pose, prev_pose, next_pose, prev_pose_time,
                   next_pose_time, captureFixed>>

NextCapture ==
    \/ CapLocate \/ CapEvaluate \/ CapSampleCurrent \/ CapEnter \/ CapSample
    \/ CapExit \/ CapApplyPose

SpecCapture == InitCapture /\ [][NextCapture]_vars

\* ------------------------------------------------ properties of the capture
LogIndex(e) == CHOOSE i \in DOMAIN call.log : call.log[i] = e
EvaluatedBefore(e) == LogIndex(e) > 1 /\ call.log[LogIndex(e) - 1] = "evaluate"

\* the captures come in the order previous time, next time, restore, and the
\* scene is evaluated at its time before either is sampled
CaptureOrdered ==
    /\ LogIndex("sample_prev") < LogIndex("sample_next")
    /\ call.log[Len(call.log)] = "restore"
    /\ LocalTime = call.origin
    /\ LogIndex("goto_prev") = LogIndex("sample_prev") - 2
    /\ LogIndex("goto_next") = LogIndex("sample_next") - 2
    /\ EvaluatedBefore("sample_prev")
    /\ EvaluatedBefore("sample_next")
    /\ prev_pose = get_pose(models, Evaluate(PosedScene, prev_pose_time))
    /\ next_pose = get_pose(models, Evaluate(PosedScene, next_pose_time))

\* C26: within one session the poses are sampled in the order previous-time
\* capture, next-time capture, restore to the original time, and a scene
\* evaluation is forced before every pose sample, the sample of the current
\* pose at session start included.
C26_EvaluatedBeforeEverySample ==
    CaptureAt = "done" =>
        /\ CaptureOrdered
        /\ EvaluatedBefore("sample_current")

\* C26, amended: the poses are sampled in the order previous-time capture,
\* next-time capture, restore to the original time, with a scene evaluation
\* forced before the sample at the previous and at the next time; the current
\* pose is sampled after a forced evaluation in the panel and without one,
\* before anything else, in the overlay.
C26_CaptureOrder ==
    CaptureAt = "done" =>
        /\ CaptureOrdered
        /\ call.entry = "panel" =>
              /\ EvaluatedBefore("sample_current")
              /\ current_pose = get_pose(models, Evaluate(PosedScene, call.origin))
        /\ call.entry = "overlay" =>
              /\ LogIndex("sample_current") = 1
              /\ current_pose = get_pose(fullbody, PosedScene)

\* an overlay whose bracket times both differ from the current time, with a
\* current pose that an evaluation would have read differently
C26_Witness ==
    /\ CaptureAt = "done"
    /\ call.entry = "overlay"
    /\ prev_pose_time < call.origin
    /\ call.origin < next_pose_time
    /\ prev_pose # next_pose
    /\ current_pose # get_pose(fullbody, Evaluate(PosedScene, call.origin))

\* --------------------------- specification of the bulk-change bracket
\* apply_inbetween_pose and apply_pose statement by statement: the with
\* statement of change_all_models_ctx around the loop over the models.  call
\* holds the arguments, the position, the brackets open in the host (depth)
\* and the counts of FBBeginChangeAllModels / FBEndChangeAllModels.
MaxBulkCalls == 2

BulkFunctions == {"apply_inbetween_pose", "apply_pose"}

\* the poses the loop body looks the model up in
BulkLookups(c) ==
    IF c.fn = "apply_pose" THEN DOMAIN c.pose_a ELSE DOMAIN c.pose_a \cap DOMAIN c.pose_b

\* the brackets open after leaving the with statement, __exit__ skipped when
\* the block raised
BulkExitDepth_SkippedOnRaise(c) == IF c.raised THEN c.depth ELSE c.depth - 1

\* __exit__ -> FBEndChangeAllModels(), on every way out of the block
BulkExitDepth(c) == c.depth - 1

bulkFixed == <<keyset, LocalTime, quatInterp, selected, depSelected, subGroups,
               propOwner, keyingMode, undoOpen, undoEnds, overlayVars, last, found,
               resolved, ctx, sliderVars>>

InitBulk ==
    /\ \E fn \in BulkFunctions, order \in AllOrders, Da \in PoseDomains, Db \in PoseDomains,
          k \in {0, BlendDen}, msk \in {DefaultMask, [c \in Channels |-> TRUE]} :
          call = [op |-> "bulk", fn |-> fn, order |-> order, i |-> 1, pc |-> "ready",
                  pose_a |-> get_pose(Da, SeedScene([t |-> 0, r |-> 0, s |-> BlendDen])),
                  pose_b |-> get_pose(Db, SeedScene([t |-> 10 * BlendDen, r |-> HalfTurn,
                                                     s |-> 2 * BlendDen])),
                  ratio |-> k, mask |-> msk, depth |-> 0, begins |-> 0, ends |-> 0,
                  written |-> {}, outside |-> 0, raised |-> FALSE, count |-> 1]
    /\ keyset = {}
    /\ LocalTime = RangeStart
    /\ found = NoFound
    /\ ctx = NoCtx
    /\ IdleHost /\ IdleGroups /\ IdleOverlay /\ IdleSlider

\* __enter__ -> FBBeginChangeAllModels()
BulkBegin ==
    /\ call.op = "bulk" /\ call.pc = "ready"
    /\ call' = [call EXCEPT !.pc = IF call.order = <<>> THEN "leaving" ELSE "inside",
                            !.depth = call.depth + 1, !.begins = call.begins + 1]
    /\ UNCHANGED <<live, bulkFixed>>

\* one pass of the loop: the pose lookups raise KeyError, or the SetVector
\* calls write the model
BulkModel ==
    /\ call.op = "bulk" /\ call.pc = "inside"
    /\ LET m == call.order[call.i]
       IN  IF m \notin BulkLookups(call)
           THEN /\ call' = [call EXCEPT !.pc = "leaving", !.raised = TRUE]
                /\ live' = live
           ELSE /\ live' = IF call.fn = "apply_pose"
                           THEN apply_pose(live, {m}, call.pose_a)
                           ELSE apply_inbetween_pose(live, {m}, call.pose_a, call.pose_b,
                                                     call.ratio, call.mask)
                /\ call' = [call EXCEPT
                              !.i = call.i + 1,
                              !.pc = IF call.i = Len(call.order) THEN "leaving" ELSE "inside",
                              !.written = call.written \cup {m},
                              !.outside = call.outside + (IF call.depth = 1 THEN 0 ELSE 1)]
    /\ UNCHANGED bulkFixed

\* leaving the with statement
BulkEnd ==
    /\ call.op = "bulk" /\ call.pc = "leaving"
    /\ call' = [call EXCEPT !.pc = "done", !.depth = BulkExitDepth(call),
                            !.ends = call.ends + 1]
    /\ UNCHANGED <<live, bulkFixed>>

\* the next call, after the one before returned or raised
BulkCall ==
    /\ call.op = "bulk" /\ call.pc = "done"
    /\ call.count < MaxBulkCalls
    /\ \E fn \in BulkFunctions, order \in AllOrders :
          call' = [call EXCEPT !.fn = fn, !.order = order, !.i = 1, !.pc = "ready",
                               !.written = {}, !.raised = FALSE,
                               !.count = call.count + 1]
    /\ UNCHANGED <<live, bulkFixed>>

NextBulk == BulkBegin \/ BulkModel \/ BulkEnd \/ BulkCall

SpecBulk == InitBulk /\ [][NextBulk]_vars

\* C27: every transform write of apply_inbetween_pose and apply_pose happens
\* between FBBeginChangeAllModels and its FBEndChangeAllModels, every begin is
\* matched by one end on every way out, a pose lookup that raises inside the
\* loop included; the bracket is never left open and never nested.
C27_BulkBracketed ==
    call.op = "bulk" =>
        /\ call.depth \in {0, 1}
        /\ call.outside = 0
        /\ call.pc \in {"inside", "leaving"} => call.depth = 1
        /\ call.pc \in {"ready", "done"} => call.depth = 0 /\ call.begins = call.ends
        /\ call.pc = "done" => call.begins = call.count

\* a second call that wrote a model and then raised on a missing pose entry
C27_Witness ==
    /\ call.op = "bulk"
    /\ call.pc = "done"
    /\ call.count = MaxBulkCalls
    /\ call.raised
    /\ call.written # {}
    /\ call.depth = 0
    /\ live # PosedScene

\* ------------------------------ properties of apply_inbetween_pose, continued
\* the rotation either method gives for model m of the call
QuaternionBlend(m) ==
    QuaternionToRotation(InterpolateQuaternion(call.pose_a[m].quaternion,
                                               call.pose_b[m].quaternion, call.ratio))
EulerBlend(m) ==
    InterpolateEuler(call.pose_a[m].rotation, call.pose_b[m].rotation, call.ratio)

\* the poses of the call with one field of model m replaced in both
WithField(pose, m, field, x) ==
    [pose EXCEPT ![m] = IF field = "rotation" THEN [pose[m] EXCEPT !.rotation = x]
                        ELSE [pose[m] EXCEPT !.quaternion = x]]

\* C28: with rotation enabled, each model on its own: a model whose
\* interpolation mode is quaternion gets the rotation interpolated from the
\* two cached quaternions and converted to Euler, any other model the rotation
\* interpolated from the two cached Euler vectors; the unused form of the
\* poses and the mode of the other models have no part in it.
C28_RotationByMode ==
    (call.op = "done" /\ call.mask["R"]) =>
        \A m \in call.written :
            /\ live[m]["R"] = (IF quatInterp[m] THEN QuaternionBlend(m) ELSE EulerBlend(m))
            /\ \A x, y \in 0..(AngleMod - 1) :
                  LET unused == IF quatInterp[m] THEN "rotation" ELSE "quaternion"
                  IN  BlendedModel(call.before, m,
                                   WithField(call.pose_a, m, unused, x),
                                   WithField(call.pose_b, m, unused, y),
                                   call.ratio, call.mask)["R"] = live[m]["R"]

\* one call that wrote a quaternion model and an Euler model, each with a
\* rotation the other method would not have given
C28_Witness ==
    /\ call.op = "done"
    /\ call.mask["R"]
    /\ \E m, n \in call.written :
          /\ quatInterp[m] /\ ~quatInterp[n]
          /\ live[m]["R"] = QuaternionBlend(m) /\ live[m]["R"] # EulerBlend(m)
          /\ live[n]["R"] = EulerBlend(n) /\ live[n]["R"] # QuaternionBlend(n)

\* ------------------------------------- properties of the overlay, continued
\* C29: in an overlay session the scene depends only on the session-start
\* pose, the cached bracket poses, the value and the mask: after any moves and
\* channel toggles every enabled channel of every model of the active set is
\* the blend of the session-start pose toward the next pose (value > 0) or the
\* previous pose (value <= 0) at |value|, and every disabled channel has its
\* session-start value, a channel blended earlier and toggled off included.
C29_SceneFromState ==
    (overlay = "active" /\ last.op \in {"activate", "blend"}) =>
        LET other == IF value > 0 THEN next_pose ELSE prev_pose
            r == IF value > 0 THEN value ELSE 0 - value
        IN  \A m \in models :
               /\ m \in DOMAIN current_pose
               /\ current_pose[m] = ModelTransform(PosedScene, m)
               /\ \A c \in Channels :
                     live[m][c] =
                        IF mask[c]
                        THEN BlendedModel(PosedScene, m, current_pose, other, 2 * r, mask)[c]
                        ELSE PoseChannels(current_pose[m])[c]

\* C30: in an overlay session started by activate(), in every keying mode and
\* keying-group hierarchy, every model of the active set is a key of
\* current_pose, prev_pose and next_pose, so that no blend and no cancel
\* fails on a missing pose entry.
C30_ActiveModelsPosed ==
    /\ overlay = "active" =>
          models \subseteq (DOMAIN current_pose \cap DOMAIN prev_pose \cap DOMAIN next_pose)
    /\ last.op \in {"blend", "cancel"} => ~last.raised

====
